---------------------------- MODULE Spec2Model ----------------------------
(***************************************************************************)
(* Gold Digger AI Bot: the trading control plane.                          *)
(*                                                                         *)
(* The model follows the thread-based daemon that the dashboard drives     *)
(* (core/simple_daemon.py), the live trading engine it owns                *)
(* (core/live_trading_engine.py), the risk manager                         *)
(* (core/risk_manager.py), the AI client (core/gemini_client.py) and the   *)
(* bot_state / trades tables (utils/data_manager.py).                      *)
(*                                                                         *)
(* Units.  Prices are whole dollars.  Lot sizes are in hundredths of a lot *)
(* (0.01 lot = 1), so that (exit - entry) * volume * 100 of the source is  *)
(* (exit - entry) * volume here.  Confidences are in hundredths            *)
(* (0.75 = 75).  Percentages such as max_risk_per_trade = 0.01 are kept as *)
(* a divisor (balance \div 100).                                           *)
(***************************************************************************)
EXTENDS Integers, Sequences, FiniteSets, TLC

VARIABLES
    today,        \* datetime.now().date(), as a day number
    bot_state,    \* the bot_state row (id = 1) of the database
    daemon,       \* per process: the SimpleDaemon singleton and its control call
    engine,       \* the LiveTradingEngine objects that still have a thread or an owner
    trades,       \* the trades table: rows inserted by DataManager.save_trade
    broker_open,  \* the positions the broker (or the paper book) really holds open
    entry_clock,  \* datetime.now() at the last position open, as a logical time
    loss_limit_hit, \* history: the engine's daily_pnl has been <= -max_daily_loss today
    probe         \* the input/output pair of a pure function under test

vars == <<today, bot_state, daemon, engine, trades, broker_open, entry_clock,
          loss_limit_hit, probe>>

(***************************************************************************)
(* Bounds of the model.                                                    *)
(***************************************************************************)
MaxDay == 1          \* calendar days after the first one
MaxOpens == 5        \* positions opened in one behaviour
MaxEngines == 2      \* engine objects alive at the same time
LifecycleOpens == 1  \* positions opened in one behaviour of Spec

(***************************************************************************)
(* Program constants.                                                      *)
(***************************************************************************)
max_positions == 3
max_daily_trades == 5
max_trades_per_day == 4
max_daily_loss == 500
max_drawdown_pct == 10
min_rr_x10 == 15
min_lot == 1
max_lot == 100
ai_boost == 20
ai_penalty == 30
ai_demote_below == 30
exec_min_confidence == 75
ai_min_confidence == 60
fallback_confidence == 0
nl_default_confidence == 50
paper_ticket_base == 1000

Instances == {1, 2}
EngineIds == 1..MaxEngines
NoEngine == 0
NoDate == -1
Prices == 1..5
NoPrice == 0

Max(a, b) == IF a >= b THEN a ELSE b
Min(a, b) == IF a <= b THEN a ELSE b
Abs(a) == IF a >= 0 THEN a ELSE -a

-----------------------------------------------------------------------------
(***************************************************************************)
(* AI validation: GeminiClient.get_trade_decision and the AI branch of     *)
(* LiveTradingEngine._analyze_and_trade.                                   *)
(***************************************************************************)

\* What model.generate_content does over the three attempts of one call:
\*   kind "parsed"       a reply that parses (JSON, or tagged ACTION:/CONFIDENCE:
\*                       text), carrying a decision and a confidence
\*   kind "unparseable"  a reply with no JSON object and none of the tagged fields
\*   kind "fail"         every attempt raised, or returned an empty response
AIReplies ==
    [kind : {"parsed"}, decision : {"BUY", "SELL", "HOLD"}, confidence : {50, 80}]
    \cup {[kind |-> "unparseable", decision |-> "HOLD", confidence |-> 0],
          [kind |-> "fail", decision |-> "HOLD", confidence |-> 0]}

_fallback_decision ==
    [trade_decision |-> "HOLD", confidence_score |-> fallback_confidence,
     model_used |-> "FALLBACK"]

\* _parse_trading_response: JSON first, else the natural-language parser, whose
\* defaults are action HOLD and confidence 0.5 when no tagged field matches.
_parse_trading_response(reply) ==
    IF reply.kind = "parsed"
    THEN [trade_decision |-> reply.decision, confidence_score |-> reply.confidence,
          model_used |-> "gemini"]
    ELSE [trade_decision |-> "HOLD", confidence_score |-> nl_default_confidence,
          model_used |-> "gemini"]

get_trade_decision(reply) ==
    IF reply.kind = "fail"
    THEN _fallback_decision
    ELSE LET d == _parse_trading_response(reply)
         IN  IF d.confidence_score < ai_min_confidence
             THEN [d EXCEPT !.trade_decision = "HOLD"]
             ELSE d

\* A variant that asks the AI about every signal and takes over its decision.
ai_validate_adopting(gemini_available, signal, reply) ==
    IF gemini_available
    THEN LET ai == get_trade_decision(reply)
         IN  [signal EXCEPT !.signal = ai.trade_decision,
                            !.ai_validated = (ai.trade_decision # "HOLD"),
                            !.confidence = IF ai.trade_decision # "HOLD"
                                           THEN Min(100, @ + ai_boost)
                                           ELSE Max(0, @ - ai_penalty)]
    ELSE [signal EXCEPT !.ai_validated = FALSE]

\* A variant that turns every signal the AI answers with HOLD into HOLD,
\* whatever confidence is left.
ai_validate_always_demoting(gemini_available, signal, reply) ==
    IF gemini_available /\ signal.signal # "HOLD"
    THEN LET ai == get_trade_decision(reply)
         IN  IF ai.trade_decision # "HOLD"
             THEN [signal EXCEPT !.ai_validated = TRUE,
                                 !.confidence = Min(100, @ + ai_boost)]
             ELSE [signal EXCEPT !.ai_validated = FALSE,
                                 !.confidence = Max(0, @ - ai_penalty),
                                 !.signal = "HOLD",
                                 !.reasons = Append(@, "AI validation failed")]
    ELSE [signal EXCEPT !.ai_validated = FALSE]

\* The AI branch of _analyze_and_trade applied to a technical signal.  The
\* except-branch of the source (lines 281-284) is not modelled as an outcome:
\* get_trade_decision catches every exception itself and returns the fallback.

ai_validate(gemini_available, signal, reply) ==
    IF gemini_available /\ signal.signal # "HOLD"
    THEN LET ai == get_trade_decision(reply)
         IN  IF ai.trade_decision # "HOLD"
             THEN [signal EXCEPT !.ai_validated = TRUE,
                                 !.confidence = Min(100, @ + ai_boost)]
             ELSE LET c == Max(0, signal.confidence - ai_penalty)
                  IN  [signal EXCEPT !.ai_validated = FALSE,
                                     !.confidence = c,
                                     !.signal = IF c < ai_demote_below THEN "HOLD" ELSE @,
                                     !.reasons = IF c < ai_demote_below
                                                 THEN Append(@, "AI validation failed")
                                                 ELSE @]
    ELSE [signal EXCEPT !.ai_validated = FALSE]

-----------------------------------------------------------------------------
(***************************************************************************)
(* Risk management: RiskManager.calculate_position_size and                *)
(* RiskManager.validate_trade_risk.                                        *)
(***************************************************************************)

\* The lot size and the actual risk of calculate_position_size for a risk
\* amount (lines 65-96): pips_at_risk = sl_distance / 0.01, required_lots =
\* risk_amount / pips_at_risk, clamped to [0.01, 1.0] lots and rounded to 0.01;
\* actual_risk = pips_at_risk * lot_size, from the lot size before rounding.
\* In hundredths of a lot, required_lots is risk_amount / sl_distance.
LotFor(risk_amount, sl_distance) ==
    IF risk_amount <= min_lot * sl_distance
    THEN [lot_size |-> min_lot, risk_amount |-> sl_distance * min_lot]
    ELSE IF risk_amount >= max_lot * sl_distance
    THEN [lot_size |-> max_lot, risk_amount |-> sl_distance * max_lot]
    ELSE [lot_size |-> (2 * risk_amount + sl_distance) \div (2 * sl_distance),
          risk_amount |-> risk_amount]

\* calculate_position_size as validate_trade_risk calls it, without a custom
\* risk percentage: risk_amount = balance * max_risk_per_trade (1%).  A zero
\* stop distance gives the zero position.
rm_calculate_position_size(account_balance, entry_price, stop_loss) ==
    LET sl_distance == Abs(entry_price - stop_loss)
    IN  IF sl_distance = 0
        THEN [lot_size |-> 0, risk_amount |-> 0]
        ELSE LotFor(account_balance \div 100, sl_distance)

\* A variant of the rejected record that leaves the reason out.
RejectedWithoutReason(reason) ==
    [approved |-> FALSE, reason |-> "", adjusted_lot_size |-> 0, risk_amount |-> 0]

Rejected(reason) ==
    [approved |-> FALSE, reason |-> reason, adjusted_lot_size |-> 0, risk_amount |-> 0]

\* A variant of the test of line 187 that lets every risk amount pass.
risk_amount_never_too_high(position_info, account_balance) == FALSE

\* if position_info['risk_amount'] > account_balance * self.max_risk_per_trade
risk_amount_too_high(position_info, account_balance) ==
    position_info.risk_amount > account_balance \div 100

\* rm is the engine's RiskManager: daily_pnl and trade_count_today, and the
\* risk_percentage and max_risk_amount SimpleDaemon.start_trading sets on it,
\* which nothing reads.
validate_trade_risk(rm, trade_signal, account_info) ==
    LET balance == account_info.balance
        equity  == account_info.equity
        entry   == trade_signal.entry_price
        sl      == trade_signal.stop_loss
        tp      == trade_signal.take_profit
        risk    == Abs(entry - sl)
        reward  == Abs(tp - entry)
        pos     == rm_calculate_position_size(balance, entry, sl)
    IN  IF rm.daily_pnl <= -max_daily_loss
        THEN Rejected("Daily loss limit reached")
        ELSE IF (balance - equity) * 100 >= max_drawdown_pct * balance
        THEN Rejected("Maximum drawdown exceeded")
        ELSE IF rm.trade_count_today >= max_trades_per_day
        THEN Rejected("Daily trade limit reached")
        ELSE IF entry = 0 \/ sl = 0 \/ tp = 0
        THEN Rejected("Missing trade signal components")
        ELSE IF risk = 0
        THEN Rejected("Invalid stop loss - no risk defined")
        ELSE IF reward * 10 < min_rr_x10 * risk
        THEN Rejected("Risk-reward ratio too low")
        ELSE IF pos.lot_size = 0
        THEN Rejected("Cannot calculate valid position size")
        ELSE IF risk_amount_too_high(pos, balance)
        THEN Rejected("Risk amount too high")
        ELSE [approved |-> TRUE, reason |-> "All risk criteria met",
              adjusted_lot_size |-> pos.lot_size, risk_amount |-> pos.risk_amount]

-----------------------------------------------------------------------------
(***************************************************************************)
(* The inputs of a tick.                                                   *)
(***************************************************************************)

\* TradingEngine.generate_trade_signal, as seen by the loop: HOLD, or a BUY
\* with its levels.  The confidence of a non-HOLD signal is
\* min(0.95, 0.60 + bonus), a multiple of 0.05 between 0.40 and 0.95.
TechConfidences == {40 + 5 * k : k \in 0..11}

\* The replies and signals the ticks of the system specifications draw from: an
\* AI that agrees, one that says HOLD, one that fails; a signal that needs the
\* AI boost to reach the execution threshold and one that does not.
TickReplies ==
    {[kind |-> "parsed", decision |-> "BUY", confidence |-> 80],
     [kind |-> "parsed", decision |-> "HOLD", confidence |-> 80],
     [kind |-> "fail", decision |-> "HOLD", confidence |-> 0]}

HoldSignal ==
    [signal |-> "HOLD", confidence |-> 0, entry_price |-> 0, stop_loss |-> 0,
     take_profit |-> 0, ai_validated |-> FALSE, reasons |-> <<"Step FAILED">>]

BuySignal(c) ==
    [signal |-> "BUY", confidence |-> c, entry_price |-> 3, stop_loss |-> 2,
     take_profit |-> 5, ai_validated |-> FALSE, reasons |-> <<"All 4 SMC steps">>]

\* A BUY on a lower order block.  generate_trade_signal returns no SELL: its
\* SELL branch reads pip_value, which only the BUY branch assigns, and the
\* error is answered with HOLD.
LowBuySignal(c) ==
    [signal |-> "BUY", confidence |-> c, entry_price |-> 2, stop_loss |-> 1,
     take_profit |-> 4, ai_validated |-> FALSE, reasons |-> <<"All 4 SMC steps">>]

SignalsWith(C) ==
    {HoldSignal} \cup {BuySignal(c) : c \in C} \cup {LowBuySignal(c) : c \in C}

TickSignals == SignalsWith({55, 80})
LifecycleSignals == {HoldSignal, BuySignal(80)}
LifecyclePrices == {1, 3}

\* MT5Connector.get_account_info: None, or balance and equity.
NoAccount == [balance |-> 0, equity |-> 0]
Accounts == {[balance |-> 100000, equity |-> 100000],
             [balance |-> 100000, equity |-> 90000]}

-----------------------------------------------------------------------------
(***************************************************************************)
(* LiveTradingEngine.                                                      *)
(***************************************************************************)

\* The risk settings of a start call: risk_percentage in percent and
\* max_risk_amount in dollars.  DefaultConfig is what the bot_state row is
\* created with and what stop_trading writes.
DefaultConfig == [risk_percentage |-> 1, max_risk_amount |-> 1000]
CustomConfig == [risk_percentage |-> 2, max_risk_amount |-> 500]

FreeEngine ==
    [used |-> FALSE, proc |-> 0, paper_trading |-> TRUE, is_running |-> FALSE,
     pc |-> "none", gemini_available |-> TRUE, open_positions |-> <<>>,
     daily_trade_count |-> 0, last_trade_date |-> NoDate,
     daily_pnl |-> 0, trade_count_today |-> 0, risk |-> DefaultConfig]

\* __init__ (lines 54-77) with RiskManager.__init__ (lines 40-42).
NewEngine(i, paper_trading) ==
    [FreeEngine EXCEPT !.used = TRUE, !.proc = i, !.paper_trading = paper_trading]

\* _check_new_trading_day, with RiskManager.reset_daily_counters.
_check_new_trading_day(eng) ==
    IF eng.last_trade_date # today
    THEN [eng EXCEPT !.daily_trade_count = 0, !.daily_pnl = 0,
                     !.trade_count_today = 0, !.last_trade_date = today]
    ELSE eng

\* The exit test of _update_open_positions for one position.
ExitReason(position, current_price) ==
    IF position.direction = "BUY"
    THEN IF current_price <= position.stop_loss THEN "STOP_LOSS"
         ELSE IF current_price >= position.take_profit THEN "TAKE_PROFIT"
         ELSE "NONE"
    ELSE IF current_price >= position.stop_loss THEN "STOP_LOSS"
         ELSE IF current_price <= position.take_profit THEN "TAKE_PROFIT"
         ELSE "NONE"

\* The final P&L of _close_position.
ClosePnl(position, exit_price) ==
    IF position.direction = "BUY"
    THEN (exit_price - position.entry_price) * position.volume
    ELSE (position.entry_price - exit_price) * position.volume

RECURSIVE SumPnl(_, _, _)
SumPnl(ops, K, price) ==
    IF K = {} THEN 0
    ELSE LET k == CHOOSE x \in K : TRUE
         IN  ClosePnl(ops[k], price) + SumPnl(ops, K \ {k}, price)

\* A variant without the position limit.
_should_analyze_market_unlimited(eng, market_open) ==
    /\ eng.daily_trade_count < max_daily_trades
    /\ market_open

\* _should_analyze_market.  The loop sleeps analysis_interval (60 s) after each
\* tick, so the test on the time since the last analysis always passes.
_should_analyze_market(eng, market_open) ==
    /\ eng.daily_trade_count < max_daily_trades
    /\ Len(eng.open_positions) < max_positions
    /\ market_open

\* A variant of stop_trading with the emergency close of every position.
_stop_closes_all(eng) == {k \in 1..Len(eng.open_positions) : TRUE}

\* The positions stop_trading closes: none, _close_all_positions is commented out.
_stop_closes(eng) == {k \in 1..Len(eng.open_positions) : FALSE}

-----------------------------------------------------------------------------
(***************************************************************************)
(* The state after import: the bot_state row as DataManager creates it, a  *)
(* SimpleDaemon singleton per process, no engine.                          *)
(***************************************************************************)

IdleDaemon ==
    [running |-> FALSE, engine |-> NoEngine, thread |-> FALSE, ctl |-> "idle",
     result |-> "none", restart |-> FALSE]

ProbeOff ==
    [stage |-> "off", avail |-> FALSE, signal |-> HoldSignal,
     reply |-> [kind |-> "fail", decision |-> "HOLD", confidence |-> 0],
     out |-> HoldSignal]

InitSystem ==
    /\ today = 0
    /\ bot_state = [is_running |-> FALSE, trading_mode |-> "Paper Trading",
                    risk |-> DefaultConfig, session_id |-> "none"]
    /\ daemon = [i \in Instances |-> IdleDaemon]
    /\ engine = [e \in EngineIds |-> FreeEngine]
    /\ trades = {}
    /\ broker_open = {}
    /\ entry_clock = 0
    /\ loss_limit_hit = [e \in EngineIds |-> FALSE]

Init == InitSystem /\ probe = ProbeOff

FreeSlots == {e \in EngineIds : ~engine[e].used}

-----------------------------------------------------------------------------
(***************************************************************************)
(* SimpleDaemon: the control calls of one process.  A call that crosses a  *)
(* thread start or a join is two steps, so that the threads it starts or   *)
(* waits for can run in between.                                           *)
(***************************************************************************)

\* A call that returns at once: the result is handed to the caller and nothing
\* else changes.
Returns(i, result) ==
    /\ daemon' = [daemon EXCEPT ![i].result = result]
    /\ UNCHANGED <<today, bot_state, engine, trades, broker_open, entry_clock,
                   loss_limit_hit, probe>>

\* Variants of the two guards that refuse nothing.
start_never_refused(d) == FALSE

stop_never_refused(d) == FALSE

\* if self.running: return False, "Daemon already running"
start_refused(d) == d.running

\* if not self.running: return False, "Daemon not running"
stop_refused(d) == ~d.running

\* start_trading up to daemon_thread.start() (lines 55-77), with
\* LiveTradingEngine.start_trading (lines 88-130).  restart says that the call
\* comes from restart_if_needed.
StartCall(i, paper_trading, risk, mt5_ok, gemini_ok, restart) ==
    IF start_refused(daemon[i])
    THEN Returns(i, "already_running")       \* "Daemon already running"
    ELSE IF ~mt5_ok
    THEN Returns(i, "error")                 \* "Failed to start trading engine"
    ELSE /\ FreeSlots # {}
         /\ LET e   == CHOOSE x \in FreeSlots : \A y \in FreeSlots : x <= y
                eng == _check_new_trading_day(NewEngine(i, paper_trading))
            IN  /\ engine' = [engine EXCEPT ![e] =
                        [eng EXCEPT !.gemini_available = gemini_ok,
                                    !.risk = risk,
                                    !.is_running = TRUE,
                                    !.pc = "idle"]]
                /\ loss_limit_hit' = [loss_limit_hit EXCEPT ![e] = FALSE]
                /\ daemon' = [daemon EXCEPT ![i] =
                        [running |-> TRUE, engine |-> e, thread |-> TRUE,
                         ctl |-> "starting", result |-> "none", restart |-> restart]]
         /\ UNCHANGED <<today, bot_state, trades, broker_open, entry_clock, probe>>

\* DaemonManager.start_background_trading called by the operator.
StartBegin(i, GeminiOutcomes, Modes, Configs) ==
    /\ daemon[i].ctl = "idle"
    /\ \E paper_trading \in Modes, risk \in Configs, mt5_ok \in BOOLEAN,
          gemini_ok \in GeminiOutcomes :
          StartCall(i, paper_trading, risk, mt5_ok, gemini_ok, FALSE)

\* start_trading from save_bot_state on (lines 79-94).
StartPersist(i) ==
    /\ daemon[i].ctl = "starting"
    /\ bot_state' = [is_running |-> TRUE,
                     trading_mode |-> IF engine[daemon[i].engine].paper_trading
                                      THEN "Paper Trading" ELSE "Live Trading",
                     risk |-> engine[daemon[i].engine].risk,
                     session_id |-> "simple_daemon"]
    /\ daemon' = [daemon EXCEPT ![i].ctl = "idle", ![i].result = "ok",
                                ![i].restart = FALSE]
    /\ UNCHANGED <<today, engine, trades, broker_open, entry_clock, loss_limit_hit, probe>>

\* stop_trading up to the joins (lines 107-121), with
\* LiveTradingEngine.stop_trading (lines 143-168).  Both joins have a timeout, so
\* the threads may outlive the call.
StopCall(i, restart) ==
    IF stop_refused(daemon[i])
    THEN Returns(i, "not_running")              \* "Daemon not running"
    ELSE LET e      == daemon[i].engine
             eng    == engine[e]
             ops    == eng.open_positions
             closed == _stop_closes(eng)
         IN  /\ daemon' = [daemon EXCEPT ![i].running = FALSE,
                                         ![i].engine = NoEngine,
                                         ![i].ctl = "stopping",
                                         ![i].result = "none",
                                         ![i].restart = restart]
             /\ engine' = [engine EXCEPT ![e].is_running = FALSE,
                              ![e].open_positions =
                                  SelectSeq(ops, LAMBDA q :
                                     \A k \in closed : ops[k].entry_time # q.entry_time)]
             /\ trades' = trades \cup
                    {[entry_time |-> ops[k].entry_time, status |-> "MANUAL"] : k \in closed}
             /\ broker_open' = broker_open \ {ops[k].entry_time : k \in closed}
             /\ UNCHANGED <<today, bot_state, entry_clock, loss_limit_hit, probe>>

\* DaemonManager.stop_background_trading called by the operator.
StopBegin(i) ==
    /\ daemon[i].ctl = "idle"
    /\ StopCall(i, FALSE)

\* stop_trading from save_bot_state on (lines 123-138).
StopPersist(i) ==
    /\ daemon[i].ctl = "stopping"
    /\ bot_state' = [is_running |-> FALSE, trading_mode |-> "Paper Trading",
                     risk |-> DefaultConfig, session_id |-> "simple_daemon"]
    /\ daemon' = [daemon EXCEPT ![i].ctl = "idle", ![i].result = "ok",
                                ![i].restart = FALSE]
    /\ UNCHANGED <<today, engine, trades, broker_open, entry_clock, loss_limit_hit, probe>>

\* A variant of restart_if_needed that restarts with the defaults of
\* start_background_trading.
restart_config_default(state) ==
    [paper_trading |-> TRUE, risk |-> DefaultConfig]

\* The configuration restart_if_needed restarts with (lines 167-175).
restart_config(state) ==
    [paper_trading |-> (state.trading_mode = "Paper Trading"), risk |-> state.risk]

\* DaemonManager.get_trading_status (lines 96-150): daemon_running is
\* SimpleDaemon.get_status()['running'], which is self.running.
get_trading_status(i) ==
    LET daemon_running   == daemon[i].running
        database_running == bot_state.is_running
    IN  [daemon_running |-> daemon_running, database_running |-> database_running,
         trading_mode |-> bot_state.trading_mode, risk |-> bot_state.risk,
         overall_status |->
             IF daemon_running /\ database_running THEN "ONLINE"
             ELSE IF database_running /\ ~daemon_running THEN "STARTING"
             ELSE IF daemon_running /\ ~database_running THEN "STOPPING"
             ELSE "OFFLINE"]

\* DaemonManager.restart_if_needed (lines 152-198), up to the point where the
\* start or the stop it calls goes on to its second step.
RestartIfNeeded(i, GeminiOutcomes) ==
    /\ daemon[i].ctl = "idle"
    /\ LET status == get_trading_status(i)
           config == restart_config(bot_state)
       IN  IF status.database_running /\ ~status.daemon_running
           THEN \E mt5_ok \in BOOLEAN, gemini_ok \in GeminiOutcomes :
                   StartCall(i, config.paper_trading, config.risk, mt5_ok, gemini_ok, TRUE)
           ELSE IF status.daemon_running /\ ~status.database_running
           THEN StopCall(i, TRUE)
           ELSE Returns(i, "no_action")

\* The attributes and methods of a SimpleDaemon object (simple_daemon.py).
SimpleDaemonAttributes ==
    {"engine", "data_manager", "running", "daemon_thread", "status_file",
     "start_trading", "stop_trading", "get_status", "_daemon_loop"}

\* DaemonManager.force_cleanup (lines 224-262).  Its first statement calls
\* self.daemon.is_daemon_running(); on an object without that method this raises
\* AttributeError, which the except clause answers with (False, "Cleanup
\* error: ...") before anything is stopped, removed or saved.  The other branch
\* is the reset of the row at lines 248-255.
ForceCleanup(i) ==
    /\ daemon[i].ctl = "idle"
    /\ IF "is_daemon_running" \notin SimpleDaemonAttributes
       THEN Returns(i, "cleanup_error")
       ELSE /\ bot_state' = [is_running |-> FALSE, trading_mode |-> "Paper Trading",
                             risk |-> DefaultConfig, session_id |-> "cleanup"]
            /\ daemon' = [daemon EXCEPT ![i].result = "cleanup_ok"]
            /\ UNCHANGED <<today, engine, trades, broker_open, entry_clock,
                           loss_limit_hit, probe>>

\* One pass of _daemon_loop (lines 190-218): it ends when self.running is false
\* or when get_bot_state says is_running = false; otherwise it writes the
\* status file and sleeps.  It touches neither self.running nor the engine.
\* get_bot_state answers a failed read of the row with its default state, in
\* which is_running is false (data_manager.py lines 655-665).
DaemonLoop(i, ReadOutcomes) ==
    /\ daemon[i].thread
    /\ \E read_ok \in ReadOutcomes :
         LET state_is_running == IF read_ok THEN bot_state.is_running ELSE FALSE
         IN  daemon' = [daemon EXCEPT ![i].thread =
                           daemon[i].running /\ state_is_running]
    /\ UNCHANGED <<today, bot_state, engine, trades, broker_open, entry_clock,
                   loss_limit_hit, probe>>

\* The process is killed: its daemon and its engines are gone, the database stays.
Crash(i) ==
    /\ \/ daemon[i] # IdleDaemon
       \/ \E e \in EngineIds : engine[e].used /\ engine[e].proc = i
    /\ daemon' = [daemon EXCEPT ![i] = IdleDaemon]
    /\ engine' = [e \in EngineIds |->
                    IF engine[e].used /\ engine[e].proc = i THEN FreeEngine ELSE engine[e]]
    /\ loss_limit_hit' = [e \in EngineIds |->
                    IF engine[e].used /\ engine[e].proc = i THEN FALSE
                    ELSE loss_limit_hit[e]]
    /\ UNCHANGED <<today, bot_state, trades, broker_open, entry_clock, probe>>

\* Midnight.
NewDay ==
    /\ today < MaxDay
    /\ today' = today + 1
    /\ UNCHANGED <<bot_state, daemon, engine, trades, broker_open, entry_clock,
                   loss_limit_hit, probe>>

-----------------------------------------------------------------------------
(***************************************************************************)
(* The trading thread of an engine: _trading_loop, one step per call it    *)
(* makes.  pc "idle" is the thread asleep or at the while test, "exits" is *)
(* before _update_open_positions, "entry" before the entry evaluation.     *)
(***************************************************************************)

\* A variant of the loop that goes straight to the entry evaluation in the ticks
\* whose entry evaluation _should_analyze_market is going to skip.
LoopCheckExitsWithEntries(e) ==
    /\ engine[e].used
    /\ engine[e].pc = "idle"
    /\ IF engine[e].is_running
       THEN /\ engine' = [engine EXCEPT ![e] =
                            [_check_new_trading_day(engine[e]) EXCEPT !.pc =
                                IF _should_analyze_market(_check_new_trading_day(engine[e]), TRUE)
                                THEN "exits" ELSE "entry"]]
            /\ loss_limit_hit' = [loss_limit_hit EXCEPT ![e] =
                            IF engine[e].last_trade_date # today THEN FALSE ELSE @]
       ELSE /\ engine' = [engine EXCEPT ![e] = FreeEngine]
            /\ loss_limit_hit' = [loss_limit_hit EXCEPT ![e] = FALSE]
    /\ UNCHANGED <<today, bot_state, daemon, trades, broker_open, entry_clock, probe>>

\* while self.is_running: _check_new_trading_day().  When is_running is false the
\* thread ends; its engine has already been dropped by stop_trading.
LoopCheck(e) ==
    /\ engine[e].used
    /\ engine[e].pc = "idle"
    /\ IF engine[e].is_running
       THEN /\ engine' = [engine EXCEPT ![e] =
                            [_check_new_trading_day(engine[e]) EXCEPT !.pc = "exits"]]
            /\ loss_limit_hit' = [loss_limit_hit EXCEPT ![e] =
                            IF engine[e].last_trade_date # today THEN FALSE ELSE @]
       ELSE /\ engine' = [engine EXCEPT ![e] = FreeEngine]
            /\ loss_limit_hit' = [loss_limit_hit EXCEPT ![e] = FALSE]
    /\ UNCHANGED <<today, bot_state, daemon, trades, broker_open, entry_clock, probe>>

\* _update_open_positions with _close_position.  current_price is the tick's
\* last price, NoPrice when get_current_price returns None.  close_failed are
\* the triggered positions whose broker close_trade does not succeed (none in
\* paper mode).  A position whose exit test fires is removed from
\* open_positions whether or not _close_position recorded the close.
UpdateOpenPositions(e, TickPrices) ==
    /\ engine[e].used
    /\ engine[e].pc = "exits"
    /\ \E current_price \in TickPrices \cup {NoPrice} :
         LET eng == engine[e]
             ops == eng.open_positions
             triggered == {k \in 1..Len(ops) : ExitReason(ops[k], current_price) # "NONE"}
         IN  IF ops = <<>> \/ current_price = NoPrice
             THEN /\ engine' = [engine EXCEPT ![e].pc = "entry"]
                  /\ UNCHANGED <<trades, broker_open, loss_limit_hit>>
             ELSE \E close_failed \in (IF eng.paper_trading THEN {{}} ELSE SUBSET triggered) :
                    LET closed == triggered \ close_failed
                        pnl    == SumPnl(ops, closed, current_price)
                    IN  /\ engine' = [engine EXCEPT
                              ![e].pc = "entry",
                              ![e].daily_pnl = @ + pnl,
                              ![e].open_positions =
                                  SelectSeq(ops, LAMBDA q :
                                     \A k \in triggered : ops[k].entry_time # q.entry_time)]
                        /\ trades' = trades \cup
                              {[entry_time |-> ops[k].entry_time,
                                status |-> ExitReason(ops[k], current_price)] : k \in closed}
                        /\ broker_open' = broker_open \ {ops[k].entry_time : k \in closed}
                        /\ loss_limit_hit' = [loss_limit_hit EXCEPT ![e] =
                              @ \/ (closed # {} /\ eng.daily_pnl + pnl <= -max_daily_loss)]
    /\ UNCHANGED <<today, bot_state, daemon, entry_clock, probe>>

\* A variant of the result test that takes every order as filled.
trade_always_succeeded(eng, open_ok) == TRUE

\* result['success'] in _execute_trade: the paper fill always succeeds, the
\* broker's open_trade may not.
trade_succeeded(eng, open_ok) == eng.paper_trading \/ open_ok

\* _execute_trade for an approved signal.  Paper mode fills at once with ticket
\* len(open_positions) + 1000; live mode asks the broker, which may refuse.
ExecuteTrade(e, signal, risk_validation, open_ok) ==
    LET eng == engine[e]
        success == trade_succeeded(eng, open_ok)
        position ==
            [entry_time  |-> entry_clock + 1,
             ticket      |-> IF eng.paper_trading
                             THEN Len(eng.open_positions) + paper_ticket_base
                             ELSE entry_clock + 1,
             direction   |-> signal.signal,
             volume      |-> risk_validation.adjusted_lot_size,
             entry_price |-> signal.entry_price,
             stop_loss   |-> signal.stop_loss,
             take_profit |-> signal.take_profit]
    IN  IF success
        THEN /\ entry_clock < MaxOpens
             /\ engine' = [engine EXCEPT
                   ![e].pc = "idle",
                   ![e].open_positions = Append(@, position),
                   ![e].daily_trade_count = @ + 1]
             /\ entry_clock' = entry_clock + 1
             /\ trades' = trades \cup {[entry_time |-> entry_clock + 1, status |-> "OPEN"]}
             /\ broker_open' = IF eng.paper_trading THEN broker_open
                               ELSE broker_open \cup {entry_clock + 1}
        ELSE /\ engine' = [engine EXCEPT ![e].pc = "idle"]
             /\ UNCHANGED <<entry_clock, trades, broker_open>>

\* if self._should_analyze_market(): self._analyze_and_trade(), then the sleep.
\* The outcomes of the tick's external calls are drawn from the sets given:
\* check_market_hours, get_market_data, get_account_info, the technical signal,
\* the AI's reply and the broker's open_trade.
AnalyzeAndTradeIn(e, MarketOpen, HaveData, AccountInfos, TechSignals, Replies, OpenOk) ==
    /\ engine[e].used
    /\ engine[e].pc = "entry"
    /\ LET eng  == engine[e]
           Skip == /\ engine' = [engine EXCEPT ![e].pc = "idle"]
                   /\ UNCHANGED <<entry_clock, trades, broker_open>>
       IN  \E market_open \in MarketOpen :
             IF ~_should_analyze_market(eng, market_open)
             THEN Skip
             ELSE \E account_info \in AccountInfos, have_data \in HaveData :
                    IF ~have_data \/ account_info = NoAccount
                    THEN Skip
                    ELSE \E tech \in TechSignals, reply \in Replies :
                           LET signal == ai_validate(eng.gemini_available, tech, reply)
                           IN  IF signal.signal # "HOLD"
                                    /\ signal.confidence >= exec_min_confidence
                               THEN LET rv == validate_trade_risk(eng, signal, account_info)
                                    IN  IF rv.approved
                                        THEN \E open_ok \in OpenOk :
                                                ExecuteTrade(e, signal, rv, open_ok)
                                        ELSE Skip
                               ELSE Skip
    /\ UNCHANGED <<today, bot_state, daemon, loss_limit_hit>>

AnalyzeAndTrade(e, TechSignals, Replies) ==
    /\ AnalyzeAndTradeIn(e, BOOLEAN, BOOLEAN, Accounts \cup {NoAccount},
                         TechSignals, Replies, BOOLEAN)
    /\ UNCHANGED probe

-----------------------------------------------------------------------------
(***************************************************************************)
(* Spec: the whole system on one day, two processes sharing the database.  *)
(* The number of positions opened in a behaviour is held to                *)
(* LifecycleOpens, and the ticks draw from LifecycleSignals and            *)
(* LifecyclePrices.  The operator's calls are those that go ahead; the     *)
(* calls that are refused, and restart_if_needed, are in SpecControl.      *)
(***************************************************************************)
LifecycleConfigs == {CustomConfig}

Next ==
    \/ \E i \in Instances :
          StartBegin(i, {TRUE}, BOOLEAN, LifecycleConfigs) /\ daemon'[i].ctl = "starting"
    \/ \E i \in Instances : StopBegin(i) /\ daemon'[i].ctl = "stopping"
    \/ \E i \in Instances : StartPersist(i)
    \/ \E i \in Instances : StopPersist(i)
    \/ \E i \in Instances : DaemonLoop(i, {TRUE})
    \/ \E i \in Instances : Crash(i)
    \/ \E e \in EngineIds : LoopCheck(e)
    \/ \E e \in EngineIds : UpdateOpenPositions(e, LifecyclePrices)
    \/ \E e \in EngineIds :
          AnalyzeAndTrade(e, LifecycleSignals, TickReplies) /\ entry_clock' <= LifecycleOpens

Spec == Init /\ [][Next]_vars

(***************************************************************************)
(* SpecControl: the control surface.  Both processes make every call of    *)
(* DaemonManager in every state, the refused ones included, and may be     *)
(* killed and may fail to read the row; every start is in live mode, and   *)
(* the engines tick on                                                     *)
(* ControlSignals with an AI that agrees, at a price that triggers no exit.*)
(***************************************************************************)
ControlSignals == {HoldSignal, BuySignal(80)}
ControlReplies == {[kind |-> "parsed", decision |-> "BUY", confidence |-> 80]}
ControlPrices == {3}

NextControl ==
    \/ \E i \in Instances : StartBegin(i, {TRUE}, {FALSE}, LifecycleConfigs)
    \/ \E i \in Instances : StopBegin(i)
    \/ \E i \in Instances : StartPersist(i)
    \/ \E i \in Instances : StopPersist(i)
    \/ \E i \in Instances : RestartIfNeeded(i, {TRUE})
    \/ \E i \in Instances : ForceCleanup(i)
    \/ \E i \in Instances : DaemonLoop(i, BOOLEAN)
    \/ \E i \in Instances : Crash(i)
    \/ \E e \in EngineIds : LoopCheck(e)
    \/ \E e \in EngineIds : UpdateOpenPositions(e, ControlPrices)
    \/ \E e \in EngineIds :
          AnalyzeAndTrade(e, ControlSignals, ControlReplies) /\ entry_clock' <= LifecycleOpens

SpecControl == Init /\ [][NextControl]_vars

(***************************************************************************)
(* SpecEngine: one trading session.  It begins when start_trading has      *)
(* returned success in process 1, in paper or in live mode, and follows    *)
(* the trading thread of that engine over the days.                        *)
(***************************************************************************)
InitSession ==
    /\ today = 0
    /\ \E paper_trading \in BOOLEAN, gemini_ok \in BOOLEAN :
         /\ bot_state = [is_running |-> TRUE,
                         trading_mode |-> IF paper_trading THEN "Paper Trading"
                                          ELSE "Live Trading",
                         risk |-> DefaultConfig,
                         session_id |-> "simple_daemon"]
         /\ daemon = [i \in Instances |->
                        IF i = 1
                        THEN [running |-> TRUE, engine |-> 1, thread |-> TRUE,
                              ctl |-> "idle", result |-> "ok", restart |-> FALSE]
                        ELSE IdleDaemon]
         /\ engine = [e \in EngineIds |->
                        IF e = 1
                        THEN [NewEngine(1, paper_trading) EXCEPT
                                 !.gemini_available = gemini_ok,
                                 !.is_running = TRUE,
                                 !.pc = "idle",
                                 !.last_trade_date = 0]
                        ELSE FreeEngine]
    /\ trades = {}
    /\ broker_open = {}
    /\ entry_clock = 0
    /\ loss_limit_hit = [e \in EngineIds |-> FALSE]

InitEngine == InitSession /\ probe = ProbeOff

NextEngine ==
    \/ \E e \in EngineIds : LoopCheck(e)
    \/ \E e \in EngineIds : UpdateOpenPositions(e, Prices)
    \/ \E e \in EngineIds : AnalyzeAndTrade(e, TickSignals, TickReplies)
    \/ NewDay

SpecEngine == InitEngine /\ [][NextEngine]_vars

(***************************************************************************)
(* SpecEntry: one trading session in which every entry step leaves, in     *)
(* probe, the outcomes of the external calls it was run with.              *)
(***************************************************************************)
EntryInputs ==
    [stage : {"entry"}, market_open : BOOLEAN, have_data : BOOLEAN,
     account_info : Accounts \cup {NoAccount}, tech : LifecycleSignals,
     reply : TickReplies, open_ok : BOOLEAN]

EntryStep(e) ==
    \E inp \in EntryInputs :
        /\ probe' = inp
        /\ AnalyzeAndTradeIn(e, {inp.market_open}, {inp.have_data}, {inp.account_info},
                             {inp.tech}, {inp.reply}, {inp.open_ok})

NextEntry ==
    \/ \E e \in EngineIds : LoopCheck(e)
    \/ \E e \in EngineIds : UpdateOpenPositions(e, LifecyclePrices)
    \/ \E e \in EngineIds : EntryStep(e)

SpecEntry == InitEngine /\ [][NextEntry]_vars

(***************************************************************************)
(* SpecAI: the AI validation step of _analyze_and_trade on its own, for    *)
(* every technical signal, every availability of the AI and every reply.   *)
(***************************************************************************)
InitAI ==
    /\ InitSystem
    /\ probe \in [stage : {"in"}, avail : BOOLEAN,
                  signal : SignalsWith(TechConfidences), reply : AIReplies,
                  out : {HoldSignal}]

AIValidate ==
    /\ probe.stage = "in"
    /\ probe' = [probe EXCEPT !.stage = "out",
                              !.out = ai_validate(probe.avail, probe.signal, probe.reply)]
    /\ UNCHANGED <<today, bot_state, daemon, engine, trades, broker_open, entry_clock,
                   loss_limit_hit>>

NextAI == AIValidate

SpecAI == InitAI /\ [][NextAI]_vars

-----------------------------------------------------------------------------
(***************************************************************************)
(* SpecCalc: the calculations of the pipeline on their own, each applied   *)
(* once to every input of a bounded set.  probe.kind says which            *)
(* calculation a behaviour follows.                                        *)
(*                                                                         *)
(* TradingEngine.generate_trade_signal.  Prices of this calculation are in *)
(* steps of 5 pips (0.05), so that the stop offset of 5 pips is 1; every   *)
(* level is then a multiple of 0.01 and round(x, 2) leaves it as it is.    *)
(***************************************************************************)

stop_loss_offset == 1
tp_ratio_multiple == 2
NoVwap == 0

\* The order blocks (High and Low of the block's candle), the VWAP readings
\* (NoVwap: the indicator is missing from the analysis) and the current prices
\* the calculation is applied to.
OrderBlocks == {[bottom |-> 40, top |-> 42], [bottom |-> 40, top |-> 44]}
Vwaps == {NoVwap, 34, 39, 41, 43, 45, 47, 52, 60}
CurrentPrices == {41, 45}

\* The levels of a valid BUY setup (lines 425-443).
SignalLevels(ob, vwap_reading, current_price) ==
    LET entry_price   == ob.top
        stop_loss     == ob.bottom - stop_loss_offset
        risk_distance == Abs(entry_price - stop_loss)
        vwap     == IF vwap_reading = NoVwap
                    THEN current_price + risk_distance * tp_ratio_multiple
                    ELSE vwap_reading
        tp_ratio == entry_price + risk_distance * tp_ratio_multiple
    IN  [entry_price |-> entry_price, stop_loss |-> stop_loss,
         take_profit |-> IF vwap > entry_price THEN Min(vwap, tp_ratio)
                         ELSE tp_ratio]

ErrorSignal ==
    [HoldSignal EXCEPT !.reasons = <<"Signal generation error">>]

\* generate_trade_signal: HOLD with the reasons of the validation when the setup
\* validation fails (lines 412-418), else the levels
\* of the validated direction.  The SELL branch (lines 445-462) reads pip_value
\* at line 451; pip_value is assigned only in the BUY branch (line 430), so the
\* read raises and the except clause of line 495 answers HOLD.  No test on the
\* levels follows the BUY branch.
generate_trade_signal(validation, ob, vwap_reading, current_price) ==
    IF ~validation.valid
    THEN [HoldSignal EXCEPT !.reasons = validation.reasons]
    ELSE IF validation.trade_direction = "SELL"
    THEN ErrorSignal
    ELSE LET lv == SignalLevels(ob, vwap_reading, current_price)
         IN  [signal |-> "BUY",
              confidence |-> validation.confidence,
              entry_price |-> lv.entry_price, stop_loss |-> lv.stop_loss,
              take_profit |-> lv.take_profit, ai_validated |-> FALSE,
              reasons |-> validation.reasons]

\* validate_smc_strategy_setup as generate_trade_signal sees it.
Validations ==
    {[valid |-> FALSE, trade_direction |-> "HOLD", confidence |-> 0,
      reasons |-> <<"Step 1 FAILED: No session liquidity levels identified">>]}
    \cup [valid : {TRUE}, trade_direction : {"BUY", "SELL"}, confidence : {60, 80, 95},
          reasons : {<<"All 4 SMC steps">>}]

SignalProbes ==
    [kind : {"signal"}, stage : {"in"}, validation : Validations, ob : OrderBlocks,
     vwap : Vwaps, current_price : CurrentPrices, out : {HoldSignal}]

GenerateSignal ==
    /\ probe.kind = "signal"
    /\ probe.stage = "in"
    /\ probe' = [probe EXCEPT !.stage = "out",
                    !.out = generate_trade_signal(probe.validation, probe.ob,
                                                  probe.vwap, probe.current_price)]
    /\ UNCHANGED <<today, bot_state, daemon, engine, trades, broker_open, entry_clock,
                   loss_limit_hit>>

(***************************************************************************)
(* RiskManager.validate_trade_risk on its own, in the units of the engine  *)
(* (whole dollars, hundredths of a lot).  The risk manager carries the     *)
(* risk_percentage (in percent) and the max_risk_amount start_trading was  *)
(* given.                                                                  *)
(***************************************************************************)

LevelSignal(direction, entry_price, stop_loss, take_profit) ==
    [signal |-> direction, confidence |-> 80, entry_price |-> entry_price,
     stop_loss |-> stop_loss, take_profit |-> take_profit, ai_validated |-> FALSE,
     reasons |-> <<"All 4 SMC steps">>]

RiskSignals ==
    {BuySignal(80), LowBuySignal(80),
     LevelSignal("BUY", 3, 2, 4),          \* reward 1, risk 1
     LevelSignal("BUY", 10, 8, 14),        \* risk 2
     LevelSignal("BUY", 20, 15, 30),       \* risk 5
     LevelSignal("BUY", 20, 17, 26),       \* risk 3
     LevelSignal("BUY", 3, 3, 5),          \* no risk
     LevelSignal("BUY", 3, 0, 5)}          \* no stop loss

RiskManagers ==
    [daily_pnl : {0, -max_daily_loss}, trade_count_today : {0, max_trades_per_day},
     risk_percentage : {1, 2}, max_risk_amount : {50, 1000}]

RiskAccounts ==
    [balance : {100, 10000, 100000}, equity : {100, 10000, 100000}]

RiskProbes ==
    [kind : {"risk"}, stage : {"in"}, rm : RiskManagers, account : RiskAccounts,
     signal : RiskSignals, out : {Rejected("")}]

ValidateRisk ==
    /\ probe.kind = "risk"
    /\ probe.stage = "in"
    /\ probe' = [probe EXCEPT !.stage = "out",
                    !.out = validate_trade_risk(probe.rm, probe.signal, probe.account)]
    /\ UNCHANGED <<today, bot_state, daemon, engine, trades, broker_open, entry_clock,
                   loss_limit_hit>>

(***************************************************************************)
(* The exit test of _update_open_positions and the trade record of         *)
(* _close_position for one position and one tick price.                    *)
(***************************************************************************)

NoRecord == [entry_time |-> 0, exit_price |-> 0, pnl |-> 0, status |-> "NONE"]

\* trade_data of _close_position (lines 464-481): the exit price is the price
\* the caller passes, which is the tick's last price.
_close_position(position, exit_price, reason) ==
    [entry_time |-> position.entry_time, exit_price |-> exit_price,
     pnl |-> ClosePnl(position, exit_price), status |-> reason]

\* One pass of the loop body of _update_open_positions over one position.
_update_position(position, current_price) ==
    IF ExitReason(position, current_price) = "NONE"
    THEN NoRecord
    ELSE _close_position(position, current_price, ExitReason(position, current_price))

ExitPositions ==
    {[entry_time |-> 1, ticket |-> paper_ticket_base, direction |-> sg.signal,
      volume |-> v, entry_price |-> sg.entry_price, stop_loss |-> sg.stop_loss,
      take_profit |-> sg.take_profit] : sg \in {BuySignal(80), LowBuySignal(80)},
                                        v \in {min_lot, 50, max_lot}}

ExitProbes ==
    [kind : {"exit"}, stage : {"in"}, position : ExitPositions, current_price : Prices,
     out : {NoRecord}]

UpdatePosition ==
    /\ probe.kind = "exit"
    /\ probe.stage = "in"
    /\ probe' = [probe EXCEPT !.stage = "out",
                    !.out = _update_position(probe.position, probe.current_price)]
    /\ UNCHANGED <<today, bot_state, daemon, engine, trades, broker_open, entry_clock,
                   loss_limit_hit>>

(***************************************************************************)
(* MT5Connector.check_market_hours on its own: the UTC weekday as          *)
(* datetime.weekday() numbers it (0 = Monday ... 5 = Saturday, 6 = Sunday) *)
(* and the hour of the day.                                                *)
(***************************************************************************)

Weekdays == 0..6
Hours == 0..23
Saturday == 5
Sunday == 6
Friday == 4

\* The sessions table, in half hours so that 13.5 is a whole number.
Sessions ==
    {[name |-> "ASIAN",    start |-> 44, end |-> 14],
     [name |-> "LONDON",   start |-> 14, end |-> 20],
     [name |-> "NEW_YORK", start |-> 27, end |-> 32]}

\* The session test: current_hour is the whole hour, compared with the bounds.
session_active(times, current_hour) ==
    IF times.start > times.end
    THEN 2 * current_hour >= times.start \/ 2 * current_hour < times.end
    ELSE times.start <= 2 * current_hour /\ 2 * current_hour < times.end

\* check_market_hours()['market_open'].
check_market_hours(weekday, current_hour) ==
    IF weekday = 6 \/ (weekday = 5 /\ current_hour >= 22)
    THEN FALSE
    ELSE \E times \in Sessions : session_active(times, current_hour)

HoursProbes ==
    [kind : {"hours"}, stage : {"in"}, weekday : Weekdays, hour : Hours, out : {FALSE}]

CheckMarketHours ==
    /\ probe.kind = "hours"
    /\ probe.stage = "in"
    /\ probe' = [probe EXCEPT !.stage = "out",
                    !.out = check_market_hours(probe.weekday, probe.hour)]
    /\ UNCHANGED <<today, bot_state, daemon, engine, trades, broker_open, entry_clock,
                   loss_limit_hit>>

(***************************************************************************)
(* SpecGemini: one GeminiClient over time.  probe holds the client's       *)
(* response_cache and requests_per_minute, the clock in seconds, the times *)
(* of the requests sent in the last rate_window seconds, and for each      *)
(* prompt the decision and the time of the last call made with it.         *)
(***************************************************************************)

cache_duration == 300
max_retries == 3
retry_delay == 1
rate_window == 60

MaxClock == 400
MaxCalls == 3
MaxSent == 4

Prompts == {1, 2}
NoEntry == [response |-> _fallback_decision, timestamp |-> -1]
NoCall == [decision |-> _fallback_decision, time |-> -1]
RequestBudgets == {2, 60}

\* What one attempt's generate_content returns when it does not fail.
AttemptReplies == {r \in AIReplies : r.kind # "fail" /\ r.decision # "SELL"}
AllAttemptsFailed == [kind |-> "fail", decision |-> "HOLD", confidence |-> 0]

\* _get_cached_response: the entry, if there is one younger than cache_duration.
_get_cached_response(response_cache, cache_key, now) ==
    IF response_cache[cache_key] = NoEntry THEN NoEntry
    ELSE IF now - response_cache[cache_key].timestamp < cache_duration
    THEN response_cache[cache_key]
    ELSE NoEntry

\* The cache after the lookup: an expired entry is deleted.
_drop_expired(response_cache, cache_key, now) ==
    IF _get_cached_response(response_cache, cache_key, now) = NoEntry
    THEN [response_cache EXCEPT ![cache_key] = NoEntry]
    ELSE response_cache

\* The requests of one call: attempt a (0-based) is sent a * retry_delay after
\* the first; failures attempts fail before one succeeds or max_retries is used up.
AttemptTimes(now, failures) ==
    [a \in 1..Min(failures + 1, max_retries) |-> now + (a - 1) * retry_delay]

InWindow(sent, now) == SelectSeq(sent, LAMBDA t : t > now - rate_window)

InitGemini ==
    /\ InitSystem
    /\ probe \in [kind : {"gemini"}, now : {0}, requests_per_minute : RequestBudgets,
                  response_cache : {[p \in Prompts |-> NoEntry]},
                  sent : {<<>>}, last : {[p \in Prompts |-> NoCall]},
                  ncalls : {0}, prompt : {1}, out : {_fallback_decision}]

\* GeminiClient.get_trade_decision (lines 185-240) for one prompt.  Nothing in
\* it reads requests_per_minute.
GetTradeDecision ==
    /\ probe.kind = "gemini"
    /\ probe.ncalls < MaxCalls
    /\ \E prompt \in Prompts, failures \in 0..max_retries, reply \in AttemptReplies :
         LET now    == probe.now
             cached == _get_cached_response(probe.response_cache, prompt, now)
             cache  == _drop_expired(probe.response_cache, prompt, now)
             times  == AttemptTimes(now, failures)
             end    == times[Len(times)]
             decision == get_trade_decision(IF failures = max_retries
                                            THEN AllAttemptsFailed ELSE reply)
         IN  IF cached # NoEntry
             THEN probe' = [probe EXCEPT !.ncalls = @ + 1, !.prompt = prompt,
                               !.out = cached.response,
                               !.last[prompt] = [decision |-> cached.response,
                                                 time |-> now]]
             ELSE /\ end <= MaxClock
                  /\ Len(InWindow(probe.sent \o times, end)) <= MaxSent
                  /\ probe' = [probe EXCEPT
                        !.ncalls = @ + 1, !.prompt = prompt,
                        !.now = end,
                        !.sent = InWindow(probe.sent \o times, end),
                        !.response_cache =
                            IF failures < max_retries
                            THEN [cache EXCEPT ![prompt] =
                                     [response |-> decision, timestamp |-> end]]
                            ELSE cache,
                        !.out = decision,
                        !.last[prompt] = [decision |-> decision, time |-> now]]
    /\ UNCHANGED <<today, bot_state, daemon, engine, trades, broker_open, entry_clock,
                   loss_limit_hit>>

\* Time passes between two calls.
Advance ==
    /\ probe.kind = "gemini"
    /\ \E d \in {rate_window, cache_duration} :
         /\ probe.now + d <= MaxClock
         /\ probe' = [probe EXCEPT !.now = @ + d,
                                   !.sent = InWindow(probe.sent, probe.now + d)]
    /\ UNCHANGED <<today, bot_state, daemon, engine, trades, broker_open, entry_clock,
                   loss_limit_hit>>

NextGemini ==
    \/ GetTradeDecision
    \/ Advance

SpecGemini == InitGemini /\ [][NextGemini]_vars

(***************************************************************************)
(* The two position-size calculators outside the risk manager:             *)
(* GoldPositionSizer.calculate_position_size and                           *)
(* TradingEngine.calculate_position_size, in whole dollars and hundredths  *)
(* of a lot.  Rounding to the lot step is to the nearest hundredth.        *)
(***************************************************************************)

sizer_min_lot == 1
sizer_max_lot == 5000
te_max_risk_pct == 2

\* GoldPositionSizer.calculate_position_size.  With entry = stop the division
\* risk_amount / stop_loss_distance_usd raises ZeroDivisionError, and the except
\* clause returns the minimum position.
gold_calculate_position_size(account_balance, risk_percentage, entry_price, stop_loss_price, max_risk_amount) ==
    LET uncapped    == (account_balance * risk_percentage) \div 100
        risk_amount == IF max_risk_amount # 0 /\ uncapped > max_risk_amount
                       THEN max_risk_amount ELSE uncapped
        distance    == Abs(entry_price - stop_loss_price)
    IN  IF distance = 0
        THEN [lot_size |-> sizer_min_lot, risk_amount |-> 0]
        ELSE LET ounces   == (2 * risk_amount + distance) \div (2 * distance)
                 lot_size == Max(sizer_min_lot, Min(ounces, sizer_max_lot))
             IN  [lot_size |-> lot_size, risk_amount |-> lot_size * distance]

\* TradingEngine.calculate_position_size: a stop distance of zero returns a lot
\* size of 0.0.  risk_percentage is in percent, capped by max_risk_per_trade (2%).
te_calculate_position_size(account_balance, risk_percentage, entry_price, stop_loss) ==
    LET risk_amount == (account_balance * Min(risk_percentage, te_max_risk_pct)) \div 100
        distance    == Abs(entry_price - stop_loss)
    IN  IF distance = 0
        THEN [lot_size |-> 0, risk_amount |-> 0]
        ELSE [lot_size |-> Max(min_lot, Min(max_lot,
                               (2 * risk_amount + distance) \div (2 * distance))),
              risk_amount |-> risk_amount]

SizerProbes ==
    [kind : {"sizer"}, stage : {"in"}, sizer : {"GoldPositionSizer", "TradingEngine"},
     account_balance : {100, 10000}, risk_percentage : {1, 2},
     entry_price : Prices, stop_loss : Prices, max_risk_amount : {0, 50},
     out : {[lot_size |-> 0, risk_amount |-> 0]}]

CalculatePositionSize ==
    /\ probe.kind = "sizer"
    /\ probe.stage = "in"
    /\ probe' = [probe EXCEPT !.stage = "out",
          !.out = IF probe.sizer = "GoldPositionSizer"
                  THEN gold_calculate_position_size(probe.account_balance,
                           probe.risk_percentage, probe.entry_price, probe.stop_loss,
                           probe.max_risk_amount)
                  ELSE te_calculate_position_size(probe.account_balance,
                           probe.risk_percentage, probe.entry_price, probe.stop_loss)]
    /\ UNCHANGED <<today, bot_state, daemon, engine, trades, broker_open, entry_clock,
                   loss_limit_hit>>

(***************************************************************************)
(* The risk score validate_trade_risk returns with its decision.           *)
(***************************************************************************)

\* position_info['risk_percentage'] of calculate_position_size (line 101), in
\* hundredths of a percent: round(actual_risk / account_balance * 100, 2).
position_risk_pct_x100(position_info, account_balance) ==
    (2 * position_info.risk_amount * 10000 + account_balance) \div (2 * account_balance)

\* _calculate_risk_score: a base of 5, the bonuses and penalties of the
\* signal's risk-reward ratio (in tenths), its setup quality and confidence, the
\* position's risk percentage and the account's equity ratio, clamped to 1..10.
_calculate_risk_score(rr_ratio_x10, setup_quality, confidence, risk_pct_x100, account_info) ==
    LET rr_bonus      == IF rr_ratio_x10 >= 30 THEN 2 ELSE IF rr_ratio_x10 >= 20 THEN 1 ELSE 0
        quality_bonus == IF setup_quality >= 8 THEN 2 ELSE IF setup_quality >= 6 THEN 1 ELSE 0
        conf_bonus    == IF confidence >= 80 THEN 1 ELSE 0
        risk_bonus    == IF risk_pct_x100 <= 50 THEN 1
                         ELSE IF risk_pct_x100 >= 200 THEN -1 ELSE 0
        health_bonus  == IF account_info.equity * 100 >= 98 * account_info.balance THEN 1
                         ELSE IF account_info.equity * 100 <= 90 * account_info.balance
                         THEN -2 ELSE 0
        score == 5 + rr_bonus + quality_bonus + conf_bonus + risk_bonus + health_bonus
    IN  Max(1, Min(10, score))

\* validation['risk_score'] of validate_trade_risk: 0 from the initial record
\* (line 133), which every early return hands back, and the score of
\* _calculate_risk_score once all the tests have passed (line 196).
validate_trade_risk_score(rm, trade_signal, account_info) ==
    IF validate_trade_risk(rm, trade_signal, account_info).approved
    THEN _calculate_risk_score(trade_signal.risk_reward_ratio_x10,
             trade_signal.setup_quality, trade_signal.confidence,
             position_risk_pct_x100(
                 rm_calculate_position_size(account_info.balance,
                     trade_signal.entry_price, trade_signal.stop_loss),
                 account_info.balance),
             account_info)
    ELSE 0

\* The signals of the score probe: levels with a risk of 2 and a reward of 4,
\* a reward below 1.5 times the risk, and no risk; with the ratio, the setup
\* quality and the confidence generate_trade_signal may have written on them.
ScoreLevels == {<<10, 8, 14>>, <<3, 2, 4>>, <<3, 3, 5>>, <<20, 15, 30>>}

ScoreSignals ==
    {[entry_price |-> l[1], stop_loss |-> l[2], take_profit |-> l[3],
      risk_reward_ratio_x10 |-> rr, setup_quality |-> q, confidence |-> c] :
        l \in ScoreLevels, rr \in {10, 20, 30}, q \in {3, 6, 9}, c \in {60, 80}}

ScoreProbes ==
    [kind : {"score"}, stage : {"in"}, rm : RiskManagers, account : RiskAccounts,
     signal : ScoreSignals, out : {[approved |-> FALSE, risk_score |-> 0]}]

ScoreRisk ==
    /\ probe.kind = "score"
    /\ probe.stage = "in"
    /\ probe' = [probe EXCEPT !.stage = "out",
          !.out = [approved |-> validate_trade_risk(probe.rm, probe.signal,
                                                    probe.account).approved,
                   risk_score |-> validate_trade_risk_score(probe.rm, probe.signal,
                                                            probe.account)]]
    /\ UNCHANGED <<today, bot_state, daemon, engine, trades, broker_open, entry_clock,
                   loss_limit_hit>>

(***************************************************************************)
(* TradingEngine.validate_smc_strategy_setup: the four steps of the setup  *)
(* validation on the analysis of the market structure.  A liquidity grab   *)
(* and a session-level table are known here by their truth value only, an  *)
(* order block by its status and its type.                                 *)
(***************************************************************************)

base_confidence == 60
max_confidence == 95
strong_bos == 7

\* A variant that takes every fresh order block, whatever its type.
valid_obs_any_type(analysis) ==
    SelectSeq(analysis.order_blocks, LAMBDA ob : ob.status = "fresh")

\* valid_obs (lines 276-284): the fresh order blocks whose type is that of the
\* break of structure.
valid_obs(analysis) ==
    SelectSeq(analysis.order_blocks, LAMBDA ob :
        /\ ob.status = "fresh"
        /\ \/ analysis.bos_direction = "BULLISH" /\ ob.type = "bullish"
           \/ analysis.bos_direction = "BEARISH" /\ ob.type = "bearish")

SmcRejected(reason) ==
    [valid |-> FALSE, trade_direction |-> "HOLD", confidence |-> 0, reasons |-> <<reason>>]

\* recent_grab = any(grab for grab in liquidity_grabs[-2:])
recent_grab(liquidity_grabs) ==
    \E k \in 1..Len(liquidity_grabs) :
        k > Len(liquidity_grabs) - 2 /\ liquidity_grabs[k]

validate_smc_strategy_setup(analysis) ==
    IF ~analysis.session_levels
    THEN SmcRejected("Step 1 FAILED: No session liquidity levels identified")
    ELSE IF Len(analysis.liquidity_grabs) = 0
    THEN SmcRejected("Step 2 FAILED: No liquidity grab detected")
    ELSE IF ~recent_grab(analysis.liquidity_grabs)
    THEN SmcRejected("Step 2 FAILED: No recent liquidity grab")
    ELSE IF ~analysis.bos_detected
    THEN SmcRejected("Step 3 FAILED: No Break of Structure confirmation")
    ELSE IF analysis.bos_direction = "NEUTRAL"
    THEN SmcRejected("Step 3 FAILED: BOS direction unclear")
    ELSE IF Len(analysis.order_blocks) = 0
    THEN SmcRejected("Step 4 FAILED: No Order Blocks for retest entry")
    ELSE IF Len(valid_obs(analysis)) = 0
    THEN SmcRejected("Step 4 FAILED: No valid Order Blocks aligned with BOS direction")
    ELSE LET quality_bonus ==
                 (analysis.setup_quality - 5) * 5
                 + (IF Len(analysis.liquidity_grabs) > 1 THEN 10 ELSE 0)
                 + (IF analysis.bos_strength >= strong_bos THEN 10 ELSE 0)
         IN  [valid |-> TRUE,
              trade_direction |-> IF analysis.bos_direction = "BULLISH" THEN "BUY" ELSE "SELL",
              confidence |-> Min(max_confidence, base_confidence + quality_bonus),
              reasons |-> <<"All 4 SMC steps">>]

SmcOrderBlocks ==
    {<<>>,
     <<[status |-> "fresh", type |-> "bullish"]>>,
     <<[status |-> "fresh", type |-> "bearish"]>>,
     <<[status |-> "tested", type |-> "bullish"]>>,
     <<[status |-> "tested", type |-> "bullish"], [status |-> "fresh", type |-> "bearish"]>>,
     <<[status |-> "fresh", type |-> "bearish"], [status |-> "fresh", type |-> "bullish"]>>}

Analyses ==
    [session_levels : BOOLEAN,
     liquidity_grabs : {<<>>, <<TRUE>>, <<FALSE>>, <<TRUE, TRUE>>, <<TRUE, FALSE, FALSE>>},
     bos_detected : BOOLEAN, bos_direction : {"BULLISH", "BEARISH", "NEUTRAL"},
     bos_strength : {5, strong_bos}, setup_quality : {4, 8},
     order_blocks : SmcOrderBlocks]

SmcProbes ==
    [kind : {"smc"}, stage : {"in"}, analysis : Analyses,
     ob : {[bottom |-> 40, top |-> 42]}, vwap : {NoVwap}, current_price : {41},
     out : {HoldSignal}]

\* generate_trade_signal on an analysis: validate_trade_setup, then the levels.
GenerateSmcSignal ==
    /\ probe.kind = "smc"
    /\ probe.stage = "in"
    /\ probe' = [probe EXCEPT !.stage = "out",
                    !.out = generate_trade_signal(
                                validate_smc_strategy_setup(probe.analysis),
                                probe.ob, probe.vwap, probe.current_price)]
    /\ UNCHANGED <<today, bot_state, daemon, engine, trades, broker_open, entry_clock,
                   loss_limit_hit>>

InitCalc ==
    /\ InitSystem
    /\ probe \in SignalProbes \cup RiskProbes \cup ExitProbes
                 \cup HoursProbes
                 \cup SizerProbes
                 \cup ScoreProbes
                 \cup SmcProbes

NextCalc ==
    \/ GenerateSignal
    \/ ValidateRisk
    \/ UpdatePosition
    \/ CheckMarketHours
    \/ CalculatePositionSize
    \/ ScoreRisk
    \/ GenerateSmcSignal

SpecCalc == InitCalc /\ [][NextCalc]_vars

-----------------------------------------------------------------------------
(***************************************************************************)
(* Properties.                                                             *)
(***************************************************************************)

\* The entry times of the positions engine e holds in open_positions.
Held(e) == {engine[e].open_positions[k].entry_time : k \in 1..Len(engine[e].open_positions)}

\* The trades whose OPEN row has no closing row.
UnclosedTrades ==
    {t \in 1..entry_clock :
        /\ [entry_time |-> t, status |-> "OPEN"] \in trades
        /\ ~\E r \in trades : r.entry_time = t /\ r.status # "OPEN"}

\* A trading thread that is in a tick or will run the next one.
ExecutingTicks(e) ==
    engine[e].used /\ (engine[e].is_running \/ engine[e].pc # "idle")

C2_DailyTradeLimit ==
    \A e \in EngineIds : engine[e].daily_trade_count <= max_trades_per_day

\* C3: at most one trading loop is executing ticks, for every interleaving of
\* start and stop and for several processes sharing the database.
C3_SingleLoop ==
    Cardinality({e \in EngineIds : ExecutingTicks(e)}) <= 1

\* C4: once the realized P&L of the day has reached -max_daily_loss, no entry is
\* executed by that engine for the rest of the day.
C4_LossLimitLatched ==
    [][\A e \in EngineIds :
          loss_limit_hit[e] =>
              Len(engine'[e].open_positions) <= Len(engine[e].open_positions)]_vars

\* C5: after the daemon loop of a process has read is_running = false from the
\* bot_state row and ended, the engine of that process opens no position until
\* start is called again.
C5_StopsOnPersistedFlag ==
    [][\A i \in Instances :
          (/\ ~bot_state.is_running
           /\ daemon[i].ctl = "idle" /\ daemon[i].running /\ ~daemon[i].thread) =>
              engine'[daemon[i].engine].daily_trade_count
                  <= engine[daemon[i].engine].daily_trade_count]_vars

\* C6: a position whose broker close failed stays in open_positions: after the
\* exit pass of a tick every position the engine held that is still open at the
\* broker is still held.
C6_FailedCloseKept ==
    [][\A e \in EngineIds :
          (engine[e].pc = "exits" /\ engine'[e].pc = "entry") =>
              \A k \in 1..Len(engine[e].open_positions) :
                  engine[e].open_positions[k].entry_time \in broker_open' =>
                      \E j \in 1..Len(engine'[e].open_positions) :
                          engine'[e].open_positions[j] = engine[e].open_positions[k]]_vars

\* C7: when start_trading has started an engine, every trade whose OPEN row has
\* no closing row is held by an engine or has a CLOSED_FORCED row.
C7_ReconciledOnStart ==
    [][\A i \in Instances :
          (daemon[i].ctl = "idle" /\ daemon'[i].ctl = "starting") =>
              \A t \in UnclosedTrades' :
                  \/ \E e \in EngineIds : engine'[e].used /\ t \in Held(e)'
                  \/ [entry_time |-> t, status |-> "CLOSED_FORCED"] \in trades']_vars

\* C8: stop_trading closes no position: from its first step to its last it
\* sends no close to the broker, writes no trade row and takes no position out
\* of open_positions.
C8_StopHolds ==
    [][\A i \in Instances :
          (\/ daemon[i].ctl = "idle" /\ daemon'[i].ctl = "stopping"
           \/ /\ daemon[i].ctl = "stopping" /\ daemon'[i].ctl = "idle"
              /\ \A e \in EngineIds : engine'[e].used = engine[e].used)
          => /\ trades' = trades
             /\ broker_open' = broker_open
             /\ \A e \in EngineIds :
                   engine'[e].open_positions = engine[e].open_positions]_vars

C8_Witness ==
    \E i \in Instances, e \in EngineIds :
        /\ daemon[i].ctl = "stopping"
        /\ engine[e].used /\ engine[e].proc = i /\ ~engine[e].is_running
        /\ Held(e) # {}
        /\ Held(e) \subseteq UnclosedTrades
        /\ ~engine[e].paper_trading => Held(e) \subseteq broker_open

\* C9: when the AI call fails on every attempt or its reply cannot be parsed,
\* the signal leaves the validation with ai_validated false and with the
\* confidence and the direction of the technical signal.
C9_AIFailureNeutral ==
    (probe.stage = "out" /\ probe.reply.kind \in {"fail", "unparseable"}) =>
        /\ probe.out.ai_validated = FALSE
        /\ probe.out.confidence = probe.signal.confidence
        /\ probe.out.signal = probe.signal.signal

\* C10: the AI validation never turns HOLD into BUY or SELL: the direction after
\* it is the technical direction or HOLD.
C10_NoPromotion ==
    probe.stage = "out" => probe.out.signal \in {probe.signal.signal, "HOLD"}

C10_Witness ==
    /\ probe.stage = "out"
    /\ probe.avail
    /\ probe.signal.signal = "HOLD"
    /\ probe.reply.kind = "parsed" /\ probe.reply.decision = "BUY"
    /\ probe.reply.confidence >= ai_min_confidence
    /\ probe.out.signal = "HOLD"

\* C11: every non-HOLD signal generate_trade_signal returns has a reward of at
\* least 1.5 times its risk; a setup below that is returned as HOLD.
C11_SignalRiskReward ==
    (probe.kind = "signal" /\ probe.stage = "out" /\ probe.out.signal # "HOLD") =>
        Abs(probe.out.take_profit - probe.out.entry_price) * 10
            >= min_rr_x10 * Abs(probe.out.entry_price - probe.out.stop_loss)

\* C12: every approved signal has a lot size within [min_lot, max_lot] and a
\* risk amount of at most 1% of the balance.
C12_ApprovedWithinLimits ==
    (probe.kind = "risk" /\ probe.stage = "out" /\ probe.out.approved) =>
        /\ min_lot <= probe.out.adjusted_lot_size
        /\ probe.out.adjusted_lot_size <= max_lot
        /\ probe.out.risk_amount <= probe.account.balance \div 100

C12_Witness ==
    /\ probe.kind = "risk" /\ probe.stage = "out" /\ probe.out.approved
    /\ min_lot < probe.out.adjusted_lot_size
    /\ probe.out.adjusted_lot_size < max_lot
    /\ probe.out.risk_amount = probe.account.balance \div 100

\* C13: the risk amount a position is sized from is
\* min(balance * risk_percentage, max_risk_amount), with the risk_percentage and
\* the max_risk_amount start was given.
C13_ConfiguredRiskSizes ==
    (probe.kind = "risk" /\ probe.stage = "out" /\ probe.out.approved) =>
        probe.out.adjusted_lot_size =
            LotFor(Min((probe.account.balance * probe.rm.risk_percentage) \div 100,
                       probe.rm.max_risk_amount),
                   Abs(probe.signal.entry_price - probe.signal.stop_loss)).lot_size

\* C14: a position closed on its stop loss is recorded with its stop_loss as
\* exit price, one closed on its take profit with its take_profit, whatever the
\* tick price was.
C14_ExitAtLevel ==
    (probe.kind = "exit" /\ probe.stage = "out") =>
        /\ probe.out.status = "STOP_LOSS" =>
              probe.out.exit_price = probe.position.stop_loss
        /\ probe.out.status = "TAKE_PROFIT" =>
              probe.out.exit_price = probe.position.take_profit


\* C15: in every state where no control call is in progress, the overall_status a
\* process reports is ONLINE exactly when its daemon loop is alive and
\* bot_state.is_running is true, STARTING when is_running is true and the loop is
\* not alive, STOPPING when the loop is alive and is_running is false, and
\* OFFLINE otherwise.
C15_StatusFollowsLoop ==
    \A i \in Instances :
        daemon[i].ctl = "idle" =>
            LET alive == daemon[i].thread
                on    == bot_state.is_running
            IN  get_trading_status(i).overall_status =
                    IF alive /\ on THEN "ONLINE"
                    ELSE IF on THEN "STARTING"
                    ELSE IF alive THEN "STOPPING"
                    ELSE "OFFLINE"


\* C16: a start made while the process's daemon is running goes no further and
\* returns already_running, a stop made while it is not running goes no further
\* and returns not_running, and the step that hands back either result leaves
\* bot_state, the engines with their open positions, the trades and the broker's
\* positions unchanged.
C16_RefusedCallsChangeNothing ==
    [][\A i \in Instances :
          /\ (daemon[i].ctl = "idle" /\ daemon[i].running) =>
                 daemon'[i].ctl # "starting"
          /\ (daemon[i].ctl = "idle" /\ ~daemon[i].running) =>
                 daemon'[i].ctl # "stopping"
          /\ (daemon'[i].result # daemon[i].result
                /\ daemon'[i].result \in {"already_running", "not_running"}) =>
                 /\ daemon'[i].result = "already_running" <=> daemon[i].running
                 /\ daemon'[i] = [daemon[i] EXCEPT !.result = daemon'[i].result]
                 /\ bot_state' = bot_state
                 /\ engine' = engine
                 /\ trades' = trades
                 /\ broker_open' = broker_open]_vars

\* A start has been refused in a process whose engine holds a position while a
\* stop has been refused in the other.
C16_Witness ==
    \E i, j \in Instances :
        /\ daemon[i].result = "already_running"
        /\ daemon[i].running
        /\ engine[daemon[i].engine].open_positions # <<>>
        /\ daemon[j].result = "not_running"
        /\ ~daemon[j].running


\* C17: the step in which a start returns success leaves bot_state.is_running
\* true with a session_id that differs from the one the row held before, which
\* an earlier session wrote; the step in which a stop returns success leaves
\* bot_state.is_running false.
C17_SessionPerStart ==
    [][\A i \in Instances :
          /\ (daemon[i].ctl = "starting" /\ daemon'[i].ctl = "idle"
                /\ daemon'[i].result = "ok") =>
                 /\ bot_state'.is_running
                 /\ bot_state'.session_id # bot_state.session_id
          /\ (daemon[i].ctl = "stopping" /\ daemon'[i].ctl = "idle"
                /\ daemon'[i].result = "ok") =>
                 ~bot_state'.is_running]_vars


\* C18: bot_state.is_running never changes while a tick is in progress: no step
\* of a trading loop or of a heartbeat loop writes it, and no step taken while
\* an engine is between the beginning and the end of a tick changes it.
C18_NoToggleMidTick ==
    [][/\ (\E e \in EngineIds :
              engine[e].used /\ engine'[e].used /\ engine'[e].pc # engine[e].pc) =>
                 bot_state'.is_running = bot_state.is_running
       /\ (\E i \in Instances :
              daemon'[i] = [daemon[i] EXCEPT !.thread = ~daemon[i].thread]) =>
                 bot_state'.is_running = bot_state.is_running
       /\ (\E e \in EngineIds : engine[e].used /\ engine[e].pc \in {"exits", "entry"}) =>
                 bot_state'.is_running = bot_state.is_running]_vars

\* C19: a stop persists is_running = false only when the tick of the engine it
\* stopped has finished, and once the stop has returned that engine's loop takes
\* no further step of a tick and opens no position: it can only end.
C19_StopWaitsForTick ==
    [][\A e \in EngineIds :
          LET i == engine[e].proc
          IN  (engine[e].used /\ ~engine[e].is_running) =>
                 /\ (daemon[i].ctl = "stopping" /\ daemon'[i].ctl = "idle"
                       /\ daemon'[i].result = "ok") => engine[e].pc = "idle"
                 /\ (daemon[i].ctl # "stopping" /\ engine'[e].used) =>
                       /\ engine'[e].pc = engine[e].pc
                       /\ engine'[e].open_positions = engine[e].open_positions]_vars


C21_CleanupResets ==
    [][\A i \in Instances :
          (daemon'[i].result # daemon[i].result
             /\ daemon'[i].result \in {"cleanup_ok", "cleanup_error"}) =>
                /\ ~daemon'[i].running
                /\ ~bot_state'.is_running]_vars


\* C22: market_open is false for every hour of Saturday, for Friday from 22:00
\* and for Sunday before 22:00 (UTC).
C22_WeekendClosed ==
    (probe.kind = "hours" /\ probe.stage = "out") =>
        ((\/ probe.weekday = Saturday
          \/ probe.weekday = Friday /\ probe.hour >= 22
          \/ probe.weekday = Sunday /\ probe.hour < 22) => ~probe.out)


\* C23: no failed external call ends a loop: a step in which the heartbeat loop
\* of a process ends without the process being killed, or in which the trading
\* loop of an engine ends, is taken only when the bot has been stopped, that is
\* when the daemon's running flag or bot_state.is_running is false for the
\* heartbeat loop, and when the engine's is_running is false for the trading loop.
C23_LoopsSurviveFailures ==
    [][/\ \A i \in Instances :
             (daemon[i].thread
                /\ daemon'[i] = [daemon[i] EXCEPT !.thread = FALSE]) =>
                   (~daemon[i].running \/ ~bot_state.is_running)
       /\ \A e \in EngineIds :
             (engine[e].used /\ ~engine'[e].used
                /\ daemon'[engine[e].proc] = daemon[engine[e].proc]) =>
                   ~engine[e].is_running]_vars


\* C24: an entry step whose market-data call failed, and an entry step whose
\* order the broker refused in live mode, leave the engine's open positions,
\* its count of the day's trades, the trades table and the broker's positions
\* as they were.
C24_FailedEntryChangesNothing ==
    [][\A e \in EngineIds :
          (/\ engine[e].used /\ engine[e].pc = "entry"
           /\ engine'[e].used /\ engine'[e].pc = "idle"
           /\ probe'.stage = "entry"
           /\ \/ ~probe'.have_data
              \/ ~engine[e].paper_trading /\ ~probe'.open_ok) =>
                /\ engine'[e].open_positions = engine[e].open_positions
                /\ engine'[e].daily_trade_count = engine[e].daily_trade_count
                /\ trades' = trades
                /\ broker_open' = broker_open
                /\ entry_clock' = entry_clock]_vars

\* A live engine has just run an entry step in which the market was open, the
\* data and the account were there, the signal passed the AI and the risk gate,
\* and the broker refused the order.
C24_Witness ==
    \E e \in EngineIds :
        /\ engine[e].used /\ engine[e].pc = "idle" /\ ~engine[e].paper_trading
        /\ probe.stage = "entry"
        /\ probe.market_open /\ probe.have_data /\ probe.account_info # NoAccount
        /\ ~probe.open_ok
        /\ Len(engine[e].open_positions) < max_positions
        /\ engine[e].daily_trade_count < max_daily_trades
        /\ LET signal == ai_validate(engine[e].gemini_available, probe.tech, probe.reply)
           IN  /\ signal.signal # "HOLD"
               /\ signal.confidence >= exec_min_confidence
               /\ validate_trade_risk(engine[e], signal, probe.account_info).approved


\* C25: a call made with a prompt less than cache_duration seconds after the
\* last call made with the same prompt returns the decision that call returned,
\* whatever the service answers.
C25_CachedIdempotence ==
    [][(probe.kind = "gemini" /\ probe'.ncalls = probe.ncalls + 1) =>
          LET before == probe.last[probe'.prompt]
          IN  (before # NoCall /\ probe.now - before.time < cache_duration) =>
                  probe'.out = before.decision]_vars

\* C26: at every moment the number of requests sent to the service in the last
\* rate_window seconds, retries included, is at most requests_per_minute.
C26_RequestBudget ==
    probe.kind = "gemini" => Len(probe.sent) <= probe.requests_per_minute


\* C27: an entry step that gets as far as the signal, and whose signal is still
\* BUY or SELL after the AI validation, hands it to the risk gate whatever its
\* confidence: when the risk gate approves it and the order is filled, the
\* position is opened.
C27_NonHoldReachesRiskGate ==
    [][\A e \in EngineIds :
          (/\ engine[e].used /\ engine[e].pc = "entry"
           /\ engine'[e].used /\ engine'[e].pc = "idle"
           /\ probe'.stage = "entry"
           /\ _should_analyze_market(engine[e], probe'.market_open)
           /\ probe'.have_data /\ probe'.account_info # NoAccount
           /\ LET signal == ai_validate(engine[e].gemini_available, probe'.tech,
                                        probe'.reply)
              IN  /\ signal.signal # "HOLD"
                  /\ validate_trade_risk(engine[e], signal, probe'.account_info).approved
           /\ trade_succeeded(engine[e], probe'.open_ok)) =>
                Len(engine'[e].open_positions) = Len(engine[e].open_positions) + 1]_vars


\* C28: a position size calculated for an entry price equal to the stop loss is
\* never a positive lot size.
C28_InvalidStopNoSize ==
    (probe.kind = "sizer" /\ probe.stage = "out"
       /\ probe.entry_price = probe.stop_loss) => probe.out.lot_size = 0


\* C29: a trade that has a closing row in the trades table has no row still
\* marked OPEN: the close updates the row written at the opening.
C29_CloseUpdatesRow ==
    \A r \in trades :
        r.status # "OPEN" => [entry_time |-> r.entry_time, status |-> "OPEN"] \notin trades


\* C30: every decision validate_trade_risk returns, approved or rejected,
\* carries a risk score between 1 and 10.
C30_RiskScoreInRange ==
    (probe.kind = "score" /\ probe.stage = "out") => probe.out.risk_score \in 1..10


\* C31: a tick of the trading loop begins with the exit evaluation, whatever
\* the caps and the market hours say, the entry evaluation is reached only from
\* the exit evaluation of the same tick, and a position is added to
\* open_positions only by the entry evaluation.
C31_ExitsBeforeEntry ==
    [][\A e \in EngineIds :
          (engine[e].used /\ engine'[e].used) =>
              /\ (engine[e].pc = "idle" /\ engine'[e].pc # "idle")
                    => engine'[e].pc = "exits"
              /\ (engine[e].pc # "entry" /\ engine'[e].pc = "entry")
                    => engine[e].pc = "exits"
              /\ (engine[e].pc # "idle" /\ engine'[e].pc = "idle")
                    => engine[e].pc = "entry"
              /\ Len(engine'[e].open_positions) > Len(engine[e].open_positions)
                    => engine[e].pc = "entry"]_vars

\* The exit evaluation has run in a tick whose entry evaluation is skipped: the
\* engine holds positions and is at the position cap or the daily trade cap.
C31_Witness ==
    \E e \in EngineIds :
        /\ engine[e].used /\ engine[e].pc = "entry"
        /\ engine[e].open_positions # <<>>
        /\ ~_should_analyze_market(engine[e], TRUE)


\* The six hard blockers of validate_trade_risk for a RiskManager, a signal and
\* an account, in the order of its tests, and the reasons each of them gives.
HardBlocker(k, rm, trade_signal, account_info) ==
    LET risk   == Abs(trade_signal.entry_price - trade_signal.stop_loss)
        reward == Abs(trade_signal.take_profit - trade_signal.entry_price)
        pos    == rm_calculate_position_size(account_info.balance,
                      trade_signal.entry_price, trade_signal.stop_loss)
    IN  CASE k = 1 -> rm.daily_pnl <= -max_daily_loss
          [] k = 2 -> (account_info.balance - account_info.equity) * 100
                          >= max_drawdown_pct * account_info.balance
          [] k = 3 -> rm.trade_count_today >= max_trades_per_day
          [] k = 4 -> \/ trade_signal.entry_price = 0
                      \/ trade_signal.stop_loss = 0
                      \/ trade_signal.take_profit = 0
                      \/ risk = 0
          [] k = 5 -> reward * 10 < min_rr_x10 * risk
          [] k = 6 -> \/ pos.lot_size = 0
                      \/ pos.risk_amount > account_info.balance \div 100

BlockerReasons(k) ==
    CASE k = 1 -> {"Daily loss limit reached"}
      [] k = 2 -> {"Maximum drawdown exceeded"}
      [] k = 3 -> {"Daily trade limit reached"}
      [] k = 4 -> {"Missing trade signal components", "Invalid stop loss - no risk defined"}
      [] k = 5 -> {"Risk-reward ratio too low"}
      [] k = 6 -> {"Cannot calculate valid position size", "Risk amount too high"}

FailingBlockers(rm, trade_signal, account_info) ==
    {k \in 1..6 : HardBlocker(k, rm, trade_signal, account_info)}

C33_BoostAndPenalty ==
    (probe.stage = "out" /\ probe.avail /\ probe.signal.signal # "HOLD") =>
        LET ai   == get_trade_decision(probe.reply)
            up   == IF probe.signal.confidence + 20 > 100 THEN 100
                    ELSE probe.signal.confidence + 20
            down == IF probe.signal.confidence - 30 < 0 THEN 0
                    ELSE probe.signal.confidence - 30
        IN  IF ai.trade_decision # "HOLD"
            THEN /\ probe.out.ai_validated
                 /\ probe.out.confidence = up
                 /\ probe.out.signal = probe.signal.signal
                 /\ probe.out.reasons = probe.signal.reasons
            ELSE /\ ~probe.out.ai_validated
                 /\ probe.out.confidence = down
                 /\ probe.out.signal = (IF down < 30 THEN "HOLD" ELSE probe.signal.signal)
                 /\ probe.out.reasons = (IF down < 30
                                         THEN Append(probe.signal.reasons, "AI validation failed")
                                         ELSE probe.signal.reasons)

\* A signal the AI answered with HOLD that kept its direction, at the lowest
\* confidence that does.
C33_Witness ==
    /\ probe.stage = "out" /\ probe.avail
    /\ probe.signal.signal # "HOLD"
    /\ get_trade_decision(probe.reply).trade_decision = "HOLD"
    /\ probe.out.signal = probe.signal.signal
    /\ probe.out.confidence = 30


\* The four gates of the setup validation, in their order, and the reasons
\* that name each of them.
SmcGate(k, analysis) ==
    CASE k = 1 -> analysis.session_levels
      [] k = 2 -> \E j \in 1..Len(analysis.liquidity_grabs) :
                      j > Len(analysis.liquidity_grabs) - 2 /\ analysis.liquidity_grabs[j]
      [] k = 3 -> analysis.bos_detected /\ analysis.bos_direction # "NEUTRAL"
      [] k = 4 -> \E j \in 1..Len(analysis.order_blocks) :
                      /\ analysis.order_blocks[j].status = "fresh"
                      /\ analysis.order_blocks[j].type =
                            (IF analysis.bos_direction = "BULLISH" THEN "bullish"
                             ELSE "bearish")

SmcGateReasons(k) ==
    CASE k = 1 -> {"Step 1 FAILED: No session liquidity levels identified"}
      [] k = 2 -> {"Step 2 FAILED: No liquidity grab detected",
                   "Step 2 FAILED: No recent liquidity grab"}
      [] k = 3 -> {"Step 3 FAILED: No Break of Structure confirmation",
                   "Step 3 FAILED: BOS direction unclear"}
      [] k = 4 -> {"Step 4 FAILED: No Order Blocks for retest entry",
                   "Step 4 FAILED: No valid Order Blocks aligned with BOS direction"}

FailingGates(analysis) == {k \in 1..4 : ~SmcGate(k, analysis)}

\* C34: generate_trade_signal returns a signal other than HOLD only when the
\* four gates pass, and then in the direction of the break of structure; when a
\* gate fails it returns HOLD with one reason, that of the first failing gate.
C34_FourGates ==
    (probe.kind = "smc" /\ probe.stage = "out") =>
        LET failing == FailingGates(probe.analysis)
        IN  /\ probe.out.signal # "HOLD" =>
                  /\ failing = {}
                  /\ probe.out.signal =
                        (IF probe.analysis.bos_direction = "BULLISH" THEN "BUY" ELSE "SELL")
            /\ failing # {} =>
                  /\ probe.out.signal = "HOLD"
                  /\ Len(probe.out.reasons) = 1
                  /\ \E k \in failing :
                        /\ \A j \in failing : k <= j
                        /\ probe.out.reasons[1] \in SmcGateReasons(k)

\* A BUY from a bullish break of structure whose fresh bullish order block
\* comes after a fresh bearish one.
C34_Witness ==
    /\ probe.kind = "smc" /\ probe.stage = "out"
    /\ probe.out.signal = "BUY"
    /\ Len(probe.analysis.order_blocks) = 2
    /\ FailingGates(probe.analysis) = {}


\* C35: when start_trading returns success, the heartbeat loop it started is
\* running: it has not ended on a read of bot_state that came before
\* start_trading persisted is_running = true.
C35_LoopOutlivesStart ==
    [][\A i \in Instances :
          (daemon[i].ctl = "starting" /\ daemon'[i].ctl = "idle"
             /\ daemon'[i].result = "ok" /\ daemon'[i].running)
          => daemon'[i].thread]_vars


\* C36: stop_trading changes is_running only: the trading_mode, the
\* risk_percentage and the max_risk_amount of bot_state after it are those the
\* last start wrote.
C36_StopKeepsConfiguration ==
    [][\A i \in Instances :
          (daemon[i].ctl = "stopping" /\ daemon'[i].ctl = "idle")
          => /\ bot_state'.trading_mode = bot_state.trading_mode
             /\ bot_state'.risk = bot_state.risk]_vars


\* C37: the positions an engine holds in open_positions have pairwise distinct
\* tickets, in paper mode as in live mode.
C37_DistinctTickets ==
    \A e \in EngineIds :
        \A j, k \in 1..Len(engine[e].open_positions) :
            j # k => engine[e].open_positions[j].ticket # engine[e].open_positions[k].ticket


\* C38: the day's trade count and realized P&L go back to zero only when the
\* date has changed: a running engine lowers its trade count only on a new day,
\* and the engine a start creates carries on from the counters of the engine
\* the process stopped on the same day.
C38_CountersSurviveRestart ==
    [][/\ \A e \in EngineIds :
             (engine[e].used /\ engine'[e].used
                /\ engine'[e].daily_trade_count < engine[e].daily_trade_count)
             => engine[e].last_trade_date # today
       /\ \A i \in Instances :
             (daemon[i].ctl = "idle" /\ daemon'[i].ctl = "starting") =>
                 \A e \in EngineIds :
                     (engine[e].used /\ engine[e].proc = i
                        /\ engine[e].last_trade_date = today)
                     => /\ engine'[daemon'[i].engine].daily_trade_count
                              = engine[e].daily_trade_count
                        /\ engine'[daemon'[i].engine].daily_pnl = engine[e].daily_pnl]_vars

=============================================================================
